---- MODULE Spec2Model ----
(***************************************************************************)
(* State-machine model of the EscalateSafe run lifecycle                   *)
(* (src/api/routes/runs.py) and of the asset worker tasks                  *)
(* (src/worker/tasks/ocr_image.py, src/worker/tasks/redact_pdf.py).        *)
(*                                                                         *)
(* The database is the shared state.  Every request handler and every      *)
(* worker task is a process whose steps are its database statements        *)
(* (SELECT / commit) and its external calls; two handlers interleave at    *)
(* those points because no statement of the source takes a row lock.       *)
(* An ORM "obj.attr = v; db.commit()" is an UPDATE of that column.         *)
(***************************************************************************)
EXTENDS Integers, Sequences, FiniteSets, TLC

\* ---------------------------------------------------------------- bounds
MaxRuns == 2
NumProcs == 2
MaxRequests == 4
MaxAssets == 1
NumWorkers == 2
MaxTasks == 2
MaxNow == 500
MaxTokens == 3
MaxCalls == 2

Procs == 1..NumProcs
Workers == 1..NumWorkers
RunIds == 1..MaxRuns

\* ------------------------------------------------------- program constants
PENDING == "pending"
PROCESSING == "processing"
READY_FOR_REVIEW == "ready_for_review"
EXPORTING == "exporting"
EXPORTED == "exported"
FAILED == "failed"
CANCELLED == "cancelled"

RunStatus == {PENDING, PROCESSING, READY_FOR_REVIEW, EXPORTING, EXPORTED, FAILED, CANCELLED}

\* the one tenant the requests are made for (Tenant.id of the header's subdomain)
TenantId == 1

\* ticket ids a request may name
TicketIds == {"42", "43"}

\* ticket text fetched from the upstream, as a sequence of words; "a@b.co"
\* is an e-mail address, the other words carry no PII
Texts == {<<"hello", "a@b.co">>}

\* SQL NULL of a column holding a structured value (JSON, hash, key path)
NULL == <<>>
\* an absent string value
NONE == "none"

\* redaction_config.get("allow_internal_notes", False) of the default
\* TenantConfig that create_run inserts for a new tenant
AllowInternalNotes == FALSE

\* retry_with_backoff(create_issue_with_retry, max_retries=5)
MaxRetries == 5

\* the ways one create_issue call can end: the issue is created, a JIRAError
\* with an HTTP status is raised, or the connection fails (an exception of
\* the HTTP library, not a JIRAError)
JiraOutcomes == {"ok", "400", "401", "403", "404", "429", "500", "network"}

\* `except JIRAError as e` of retry_with_backoff catches these
IsJIRAError(e) == e \in {"400", "401", "403", "404", "429", "500"}

\* `if e.status_code in [401, 403, 404]: raise`, narrowed to the
\* authentication statuses
NoRetryStatusAuthOnly == {"401", "403"}

NoRetryStatus == {"401", "403", "404"}

\* the refresh window of get_valid_access_token, in seconds
RefreshWindow == 300
\* `expires_in` of the upstream's token response, in seconds
ExpiresIn == 400
\* the step of the clock, in seconds
TickSeconds == 100
\* oauth_token_expires_at IS NULL
NoExpiry == -1

\* the summary text of request.jira that an approve request may carry, as
\* words
Summaries == {<<"Escalation">>}

\* str() of an exception stored in an audit event: its content is not
\* modelled
ExceptionText == <<"exception">>

\* the tenant on whose behalf a request may be made
Tenants == {TenantId, 2}

VARIABLES
    runs,       \* table runs: sequence of rows, Run.id = index
    exports,    \* table exports: sequence of rows, Export.id = index
    audit,      \* table audit_events: set of <<run_id, event_type>>
    issues,     \* downstream tracker: sequence of created issues, key = index
    pc,         \* per request process: position in its handler
    loc,        \* per request process: the handler's local variables
    resp,       \* per request process: the response it is returning
    nreq,       \* number of requests received so far
    assets,     \* table run_assets: sequence of rows, RunAsset.id = index
    blobs,      \* blob store: asset id -> the sanitized artifact uploaded for it
    wpc,        \* per worker: position in its task
    wloc,       \* per worker: the task's local variables
    ntask,      \* number of task deliveries so far
    tenant,     \* table tenants: the row of the tenant, its OAuth columns
    now,        \* datetime.utcnow(), in seconds
    ntok,       \* number of token grants the upstream has issued so far
    oresp,      \* the answer of the OAuth router to its last request
    audit_meta, \* table audit_events: the free text in meta_json, as
                \* <<run_id, event_type, text>>
    vault,      \* the process's ConfigEncryption and the stored Jira token
    det         \* a detector and a redactor: <<text, redacted>> of each call

apiVars == <<runs, exports, audit, audit_meta, issues, pc, loc, resp, nreq>>
assetVars == <<assets, blobs, wpc, wloc, ntask>>
oauthVars == <<tenant, now, ntok, oresp>>
pureVars == <<vault, det>>
vars == <<runs, exports, audit, issues, pc, loc, resp, nreq, assets, blobs, wpc, wloc, ntask,
          tenant, now, ntok, oresp, audit_meta, vault, det>>

\* ------------------------------------------------------------ pure helpers

\* PIIDetector.analyze over a word sequence: the detected spans, as word
\* ranges.  "a@b.co" is an EMAIL_ADDRESS of one word; "John" followed by
\* "Doe" is one PERSON span of two words.  Empty text yields no result.
Analyze(text) ==
    {[start |-> i, end |-> i, entity_type |-> "EMAIL_ADDRESS"] :
        i \in {k \in 1..Len(text) : text[k] = "a@b.co"}}
    \cup
    {[start |-> i, end |-> i + 1, entity_type |-> "PERSON"] :
        i \in {k \in 1..(Len(text) - 1) : text[k] = "John" /\ text[k + 1] = "Doe"}}

\* RedactionPolicy.get_template (text_redactor.py 43-45); first a variant
\* whose placeholder carries the number of the call on this redactor
GetTemplateNumbered(entity_type) ==
    "[" \o entity_type \o (IF Len(det) = 0 THEN "_1]" ELSE "_2]")

GetTemplate(entity_type) ==
    IF entity_type = "EMAIL_ADDRESS" THEN "[EMAIL_REDACTED]"
    ELSE IF entity_type = "PERSON" THEN "[NAME_REDACTED]"
    ELSE "[" \o entity_type \o "_REDACTED]"

\* TextRedactor.redact: every detected span replaced by its template
RECURSIVE RedactFrom(_, _, _)
RedactFrom(text, detections, i) ==
    IF i > Len(text) THEN <<>>
    ELSE IF \E d \in detections : d.start = i
    THEN LET d == CHOOSE d \in detections : d.start = i
         IN <<GetTemplate(d.entity_type)>> \o RedactFrom(text, detections, d.end + 1)
    ELSE <<text[i]>> \o RedactFrom(text, detections, i + 1)

Redact(text, detections) ==
    IF text = <<>> \/ detections = {} THEN text ELSE RedactFrom(text, detections, 1)

\* run_hash = sha256(f"{tenant.id}:{ticket_id}:{redacted_text}"): the hash
\* is modelled by its (collision-free) input
RunHash(tenant_id, ticket_id, redacted_text) == <<tenant_id, ticket_id, redacted_text>>

NoLoc == [op |-> "none", run |-> 0, existing |-> 0, export |-> 0, key |-> 0,
          text |-> <<>>, attempt |-> 0, last_exception |-> NONE, access_token |-> 0,
          x_tenant |-> 0]
NoTask == [asset |-> 0, storage_ref |-> NULL, meta |-> NULL]
NoResp == [op |-> "none", run |-> 0, code |-> 0, key |-> 0, status |-> NONE,
           redacted_text |-> <<>>, diff_segments |-> <<>>]

Response(op, r, code, key, st) ==
    [op |-> op, run |-> r, code |-> code, key |-> key, status |-> st,
     redacted_text |-> <<>>, diff_segments |-> <<>>]

\* the value encrypt returns for an empty plaintext, "" (encryption.py 45-46)
EmptyCiphertext == [key |-> 0, iv |-> 0, plaintext |-> ""]

SetStatus(r, st) == [runs EXCEPT ![r].status = st]

ExportsOf(r) == {e \in 1..Len(exports) : exports[e].run_id = r}

Init ==
    /\ runs = <<>>
    /\ exports = <<>>
    /\ audit = {}
    /\ issues = <<>>
    /\ pc = [p \in Procs |-> "idle"]
    /\ loc = [p \in Procs |-> NoLoc]
    /\ resp = [p \in Procs |-> NoResp]
    /\ nreq = 0
    /\ assets = <<>>
    /\ blobs = <<>>
    /\ wpc = [w \in Workers |-> "idle"]
    /\ wloc = [w \in Workers |-> NoTask]
    /\ ntask = 0
    /\ tenant = [oauth_access_token |-> 0, oauth_refresh_token |-> 0,
                 oauth_token_expires_at |-> NoExpiry,
                 installation_status |-> "pending"]
    /\ now = 0
    /\ ntok = 0
    /\ oresp = NONE
    /\ audit_meta = {}
    /\ vault = [key |-> 1, ekey |-> 0, encrypted |-> EmptyCiphertext, decrypted |-> NONE]
    /\ det = <<>>

\* ------------------------------------------------------------- create_run
\* the internal-notes validation (runs.py 114-121); first the variant
\* that lets every request through
InternalNotesNeverForbidden(include_internal_notes, allow_internal_notes) == FALSE

InternalNotesForbidden(include_internal_notes, allow_internal_notes) ==
    include_internal_notes /\ ~allow_internal_notes

\* POST /v1/runs, up to the commit of the new Run row (runs.py 78-135)
create_run_begin(p, ticket_id, include_internal_notes) ==
    /\ pc[p] = "idle"
    /\ Len(runs) < MaxRuns
    /\ IF InternalNotesForbidden(include_internal_notes, AllowInternalNotes)
       THEN /\ resp' = [resp EXCEPT ![p] = Response("create_run", 0, 403, 0, NONE)]
            /\ pc' = [pc EXCEPT ![p] = "done"]
            /\ UNCHANGED <<runs, loc>>
       ELSE /\ runs' = Append(runs, [tenant_id |-> TenantId, ticket_id |-> ticket_id,
                                     status |-> PROCESSING, run_hash |-> NULL,
                                     redaction_report |-> NULL,
                                     include_internal_notes |-> include_internal_notes])
            /\ pc' = [pc EXCEPT ![p] = "cr_audit"]
            /\ loc' = [loc EXCEPT ![p] = [NoLoc EXCEPT !.op = "create_run",
                                                       !.run = Len(runs) + 1]]
            /\ UNCHANGED resp
    /\ nreq < MaxRequests
    /\ nreq' = nreq + 1
    /\ UNCHANGED <<exports, audit, audit_meta, issues, assetVars, oauthVars, pureVars>>

\* audit event run_created (runs.py 137-145)
create_run_audit(p) ==
    /\ pc[p] = "cr_audit"
    /\ audit' = audit \cup {<<loc[p].run, "run_created">>}
    /\ pc' = [pc EXCEPT ![p] = "cr_token"]
    /\ UNCHANGED <<audit_meta, runs, exports, issues, loc, resp, nreq, assetVars, oauthVars, pureVars>>

\* get_valid_access_token: the stored token is refreshed when it expires
\* within the window (oauth_service.py 163-172)
NeedsRefresh(t, utcnow) ==
    /\ t.oauth_token_expires_at # NoExpiry
    /\ t.oauth_token_expires_at - utcnow < RefreshWindow

\* the except branch of get_zendesk_client_for_tenant
\* (zendesk_oauth.py 54-64): ZendeskService(access_token=None) takes the
\* e-mail and API token of the environment when both are set, and raises
\* ValueError otherwise (zendesk.py 40-54); create_run answers that
\* ValueError with failed and 401 (runs.py 177-185).  `e` is the ValueError
\* of get_valid_access_token that the except branch caught and logged.
Fallback(p, env_credentials, e) ==
    IF env_credentials
    THEN /\ loc' = [loc EXCEPT ![p].access_token = 0, ![p].last_exception = e]
         /\ pc' = [pc EXCEPT ![p] = "cr_fetch"]
         /\ UNCHANGED <<runs, resp>>
    ELSE /\ runs' = SetStatus(loc[p].run, FAILED)
         /\ resp' = [resp EXCEPT ![p] = Response("create_run", loc[p].run, 401, 0, NONE)]
         /\ pc' = [pc EXCEPT ![p] = "done"]
         /\ loc' = [loc EXCEPT ![p] = [NoLoc EXCEPT !.last_exception = e]]

\* get_zendesk_client_for_tenant up to the refresh request
\* (zendesk_oauth.py 43-53, oauth_service.py 156-174 and 102-116)
create_run_token(p, env_credentials) ==
    /\ pc[p] = "cr_token"
    /\ IF tenant.oauth_access_token = 0
       THEN Fallback(p, env_credentials, "no_access_token")
       ELSE IF NeedsRefresh(tenant, now)
       THEN IF tenant.oauth_refresh_token = 0
            THEN Fallback(p, env_credentials, "no_refresh_token")
            ELSE /\ pc' = [pc EXCEPT ![p] = "cr_refresh"]
                 /\ UNCHANGED <<runs, loc, resp>>
       ELSE /\ loc' = [loc EXCEPT ![p].access_token = tenant.oauth_access_token]
            /\ pc' = [pc EXCEPT ![p] = "cr_fetch"]
            /\ UNCHANGED <<runs, resp>>
    /\ UNCHANGED <<exports, audit, audit_meta, issues, nreq, assetVars, oauthVars, pureVars>>

\* the ways the POST to the refresh endpoint can end (oauth_service.py
\* 116-117): a token response, a 400 invalid_grant or a 5xx answer (both
\* raised by raise_for_status), or a connection failure
RefreshOutcomes == {"ok", "invalid_grant", "500", "network"}

\* refresh_access_token from the answer of the refresh endpoint on
\* (oauth_service.py 116-138): the new tokens are committed, or the
\* RequestException becomes a ValueError
create_run_refresh(p, outcome, rotated, env_credentials) ==
    /\ pc[p] = "cr_refresh"
    /\ IF outcome = "ok"
       THEN /\ ntok < MaxTokens
            /\ tenant' = [tenant EXCEPT
                   !.oauth_access_token = ntok + 1,
                   !.oauth_token_expires_at = now + ExpiresIn,
                   !.oauth_refresh_token = IF rotated THEN ntok + 1 ELSE @]
            /\ ntok' = ntok + 1
            /\ loc' = [loc EXCEPT ![p].access_token = ntok + 1]
            /\ pc' = [pc EXCEPT ![p] = "cr_fetch"]
            /\ UNCHANGED <<runs, resp>>
       ELSE /\ Fallback(p, env_credentials, outcome)
            /\ UNCHANGED <<tenant, ntok>>
    /\ UNCHANGED <<exports, audit, audit_meta, issues, nreq, assetVars, now, oresp, pureVars>>

\* the upstream fetch with the client's credential and its two except
\* branches (runs.py 153-190)
create_run_fetch(p, outcome, text) ==
    /\ pc[p] = "cr_fetch"
    /\ IF outcome = "ok"
       THEN /\ loc' = [loc EXCEPT ![p].text = text]
            /\ pc' = [pc EXCEPT ![p] = "cr_process"]
            /\ UNCHANGED <<runs, resp>>
       ELSE /\ runs' = SetStatus(loc[p].run, FAILED)
            /\ resp' = [resp EXCEPT ![p] =
                  Response("create_run", loc[p].run,
                           IF outcome = "value_error" THEN 401 ELSE 500, 0, NONE)]
            /\ pc' = [pc EXCEPT ![p] = "done"]
            /\ loc' = [loc EXCEPT ![p] = NoLoc]
    /\ UNCHANGED <<exports, audit, audit_meta, issues, nreq, assetVars, oauthVars, pureVars>>

\* PIIDetector.analyze as create_run sees it (detector.py 249-265): an
\* exception of the analyzer engine is logged and answered with no result
DetectorAnalyze(text, analyzer_raises) ==
    IF analyzer_raises THEN {} ELSE Analyze(text)

\* TextRedactor.redact as create_run sees it (text_redactor.py 76-102): an
\* exception of the anonymizer engine is logged and answered with the
\* original text
RedactorRedact(text, detections, anonymizer_raises) ==
    IF anonymizer_raises THEN text ELSE Redact(text, detections)

\* detection, redaction and the commit of report, status and hash
\* (runs.py 192-217), or the except branch (runs.py 232-236), which an
\* exception outside the two engines reaches
create_run_process(p, outcome) ==
    /\ pc[p] = "cr_process"
    /\ LET r == loc[p].run
           detection_results == DetectorAnalyze(loc[p].text, outcome = "analyzer_error")
           redacted_text == RedactorRedact(loc[p].text, detection_results,
                                           outcome = "anonymizer_error")
       IN IF outcome # "error"
          THEN /\ runs' = [runs EXCEPT
                     ![r].redaction_report =
                         [redacted_text |-> redacted_text,
                          total_detections |-> Cardinality(detection_results)],
                     ![r].status = READY_FOR_REVIEW,
                     ![r].run_hash = RunHash(runs[r].tenant_id, runs[r].ticket_id,
                                             redacted_text)]
               /\ pc' = [pc EXCEPT ![p] = "cr_done"]
               /\ UNCHANGED <<loc, resp>>
          ELSE /\ runs' = SetStatus(r, FAILED)
               /\ resp' = [resp EXCEPT ![p] = Response("create_run", r, 500, 0, NONE)]
               /\ pc' = [pc EXCEPT ![p] = "done"]
               /\ loc' = [loc EXCEPT ![p] = NoLoc]
    /\ UNCHANGED <<exports, audit, audit_meta, issues, nreq, assetVars, oauthVars, pureVars>>

\* audit event redaction_completed and the 201 response (runs.py 219-242)
create_run_done(p) ==
    /\ pc[p] = "cr_done"
    /\ audit' = audit \cup {<<loc[p].run, "redaction_completed">>}
    /\ resp' = [resp EXCEPT ![p] =
          Response("create_run", loc[p].run, 201, 0, runs[loc[p].run].status)]
    /\ pc' = [pc EXCEPT ![p] = "done"]
    /\ loc' = [loc EXCEPT ![p] = NoLoc]
    /\ UNCHANGED <<audit_meta, runs, exports, issues, nreq, assetVars, oauthVars, pureVars>>

\* ----------------------------------------------------- approve_and_export
\* SELECT of the Run and the status validation (runs.py 341-351)
\* the validation weakened to let a failed export be approved again
ApproveAcceptsRetry(st) == st \in {READY_FOR_REVIEW, FAILED}

ApproveAccepts(st) == st = READY_FOR_REVIEW

\* SELECT of the Run by its id alone and the status check (runs.py 342-351).
\* x_tenant is the tenant on whose behalf the request is made; the handler
\* has no parameter for it and the query has no tenant filter.
approve_begin(p, r, x_tenant) ==
    /\ pc[p] = "idle"
    /\ IF r > Len(runs)
       THEN /\ resp' = [resp EXCEPT ![p] = Response("approve", r, 404, 0, NONE)]
            /\ pc' = [pc EXCEPT ![p] = "done"]
            /\ UNCHANGED loc
       ELSE IF ~ApproveAccepts(runs[r].status)
       THEN /\ resp' = [resp EXCEPT ![p] =
                  Response("approve", r, 400, 0, runs[r].status)]
            /\ pc' = [pc EXCEPT ![p] = "done"]
            /\ UNCHANGED loc
       ELSE /\ pc' = [pc EXCEPT ![p] = "ap_check_export"]
            /\ loc' = [loc EXCEPT ![p] = [NoLoc EXCEPT !.op = "approve", !.run = r,
                                                       !.x_tenant = x_tenant]]
            /\ UNCHANGED resp
    /\ nreq < MaxRequests
    /\ nreq' = nreq + 1
    /\ UNCHANGED <<runs, exports, audit, audit_meta, issues, assetVars, oauthVars, pureVars>>

\* SELECT ... FROM exports WHERE run_id = :id, first(), and the early
\* return when that row carries an issue key (runs.py 353-362)
approve_check_export(p) ==
    /\ pc[p] = "ap_check_export"
    /\ \E e \in (IF ExportsOf(loc[p].run) = {} THEN {0} ELSE ExportsOf(loc[p].run)) :
          IF e # 0 /\ exports[e].jira_issue_key # 0
          THEN /\ resp' = [resp EXCEPT ![p] =
                     Response("approve", loc[p].run, 200, exports[e].jira_issue_key,
                              "exported")]
               /\ pc' = [pc EXCEPT ![p] = "done"]
               /\ loc' = [loc EXCEPT ![p] = NoLoc]
          ELSE /\ loc' = [loc EXCEPT ![p].existing = e]
               /\ pc' = [pc EXCEPT ![p] = "ap_set_exporting"]
               /\ UNCHANGED resp
    /\ UNCHANGED <<runs, exports, audit, audit_meta, issues, nreq, assetVars, oauthVars, pureVars>>

\* run.status = EXPORTING; commit (runs.py 364-366)
approve_set_exporting(p) ==
    /\ pc[p] = "ap_set_exporting"
    /\ runs' = SetStatus(loc[p].run, EXPORTING)
    /\ pc' = [pc EXCEPT ![p] = "ap_audit_started"]
    /\ UNCHANGED <<exports, audit, audit_meta, issues, loc, resp, nreq, assetVars, oauthVars, pureVars>>

\* audit event export_started, whose meta_json is {"jira_config": request.jira}
\* (runs.py 368-376); summary is the summary text of request.jira
approve_audit_started(p, summary) ==
    /\ pc[p] = "ap_audit_started"
    /\ audit' = audit \cup {<<loc[p].run, "export_started">>}
    /\ audit_meta' = audit_meta \cup {<<loc[p].run, "export_started", summary>>}
    /\ pc' = [pc EXCEPT ![p] = "ap_export_row"]
    /\ UNCHANGED <<runs, exports, issues, loc, resp, nreq, assetVars, oauthVars, pureVars>>

\* create or reuse the Export row (runs.py 400-410)
approve_export_row(p) ==
    /\ pc[p] = "ap_export_row"
    /\ IF loc[p].existing = 0
       THEN /\ exports' = Append(exports, [run_id |-> loc[p].run, jira_issue_key |-> 0,
                                           status |-> "pending", error_code |-> NONE])
            /\ loc' = [loc EXCEPT ![p].export = Len(exports) + 1]
       ELSE /\ loc' = [loc EXCEPT ![p].export = loc[p].existing]
            /\ UNCHANGED exports
    /\ pc' = [pc EXCEPT ![p] = "ap_jira"]
    /\ UNCHANGED <<runs, audit, audit_meta, issues, resp, nreq, assetVars, oauthVars, pureVars>>

\* retry_with_backoff (jira.py 255-276): after a failed attempt number
\* `attempt` (counted from 0) the loop goes round again
ShouldRetry(e, attempt) ==
    /\ IsJIRAError(e)
    /\ e \notin NoRetryStatus
    /\ attempt < MaxRetries - 1

\* one attempt of the downstream create_issue call inside retry_with_backoff
\* (runs.py 412-433, jira.py 258-274): the issue is returned, the loop goes
\* round again, or the exception reaches the except branch of the handler
approve_jira(p, outcome) ==
    /\ pc[p] = "ap_jira"
    /\ IF outcome = "ok"
       THEN /\ issues' = Append(issues, [run |-> loc[p].run])
            /\ loc' = [loc EXCEPT ![p].key = Len(issues) + 1,
                                  ![p].attempt = 0,
                                  ![p].last_exception = NONE]
            /\ pc' = [pc EXCEPT ![p] = "ap_record_key"]
       ELSE IF ShouldRetry(outcome, loc[p].attempt)
       THEN /\ loc' = [loc EXCEPT ![p].attempt = loc[p].attempt + 1,
                                  ![p].last_exception = outcome]
            /\ UNCHANGED <<issues, pc>>
       ELSE /\ loc' = [loc EXCEPT ![p].last_exception = outcome]
            /\ pc' = [pc EXCEPT ![p] = "ap_fail_export"]
            /\ UNCHANGED issues
    /\ UNCHANGED <<runs, exports, audit, audit_meta, resp, nreq, assetVars, oauthVars, pureVars>>

\* what the handler does next once the key is committed (runs.py 439-452);
\* first the variant that goes on to the notifier without the audit event
AfterRecordKeyNoAudit == "ap_slack"

AfterRecordKey == "ap_audit_succeeded"

\* the Export row gets key, url and status success; commit (runs.py 435-439)
approve_record_key(p) ==
    /\ pc[p] = "ap_record_key"
    /\ exports' = [exports EXCEPT ![loc[p].export].jira_issue_key = loc[p].key,
                                  ![loc[p].export].status = "success"]
    /\ pc' = [pc EXCEPT ![p] = AfterRecordKey]
    /\ UNCHANGED <<runs, audit, audit_meta, issues, loc, resp, nreq, assetVars, oauthVars, pureVars>>

\* audit event export_succeeded (runs.py 441-452).  The commit is inside the
\* try block of the export (412-510): when it raises, the event is not
\* stored and the exception reaches the except branch (512).
approve_audit_succeeded(p, outcome) ==
    /\ pc[p] = "ap_audit_succeeded"
    /\ IF outcome = "ok"
       THEN /\ audit' = audit \cup {<<loc[p].run, "export_succeeded">>}
            /\ pc' = [pc EXCEPT ![p] = "ap_slack"]
            /\ UNCHANGED loc
       ELSE /\ loc' = [loc EXCEPT ![p].last_exception = outcome]
            /\ pc' = [pc EXCEPT ![p] = "ap_fail_export"]
            /\ UNCHANGED audit
    /\ UNCHANGED <<audit_meta, runs, exports, issues, resp, nreq, assetVars, oauthVars,
                   pureVars>>

\* where the handler goes on after the notifier post raised
\* (runs.py 485-499); first the variant in which the exception reaches the
\* except branch of the export
SlackFailureFailsExport == "ap_fail_export"

SlackFailureGoesTo == "ap_set_exported"

\* the optional notifier post and its audit event (runs.py 456-495)
approve_slack(p, slack) ==
    /\ pc[p] = "ap_slack"
    /\ IF slack = "ok"
       THEN /\ audit' = audit \cup {<<loc[p].run, "slack_post_succeeded">>}
            /\ pc' = [pc EXCEPT ![p] = "ap_set_exported"]
            /\ UNCHANGED <<audit_meta, loc>>
       ELSE IF slack = "fail"
       THEN /\ audit' = audit \cup {<<loc[p].run, "slack_post_failed">>}
            /\ audit_meta' = audit_meta \cup
                                {<<loc[p].run, "slack_post_failed", ExceptionText>>}
            /\ loc' = [loc EXCEPT ![p].last_exception = "slack_error"]
            /\ pc' = [pc EXCEPT ![p] = SlackFailureGoesTo]
       ELSE /\ pc' = [pc EXCEPT ![p] = "ap_set_exported"]
            /\ UNCHANGED <<audit, audit_meta, loc>>
    /\ UNCHANGED <<runs, exports, issues, resp, nreq, assetVars, oauthVars, pureVars>>

\* run.status = EXPORTED; commit; response (runs.py 497-510)
approve_set_exported(p) ==
    /\ pc[p] = "ap_set_exported"
    /\ runs' = SetStatus(loc[p].run, EXPORTED)
    /\ resp' = [resp EXCEPT ![p] =
          Response("approve", loc[p].run, 200, loc[p].key, "exported")]
    /\ pc' = [pc EXCEPT ![p] = "done"]
    /\ loc' = [loc EXCEPT ![p] = NoLoc]
    /\ UNCHANGED <<exports, audit, audit_meta, issues, nreq, assetVars, oauthVars, pureVars>>

\* except branch: the Export row is marked failed (runs.py 512-519)
approve_fail_export(p) ==
    /\ pc[p] = "ap_fail_export"
    /\ exports' = [exports EXCEPT ![loc[p].export].status = "failed",
                                  ![loc[p].export].error_code = "JIRA_API_ERROR"]
    /\ pc' = [pc EXCEPT ![p] = "ap_audit_failed"]
    /\ loc' = [loc EXCEPT ![p].attempt = 0, ![p].last_exception = NONE]
    /\ UNCHANGED <<runs, audit, audit_meta, issues, resp, nreq, assetVars, oauthVars, pureVars>>

\* audit event export_failed (runs.py 521-531)
approve_audit_failed(p) ==
    /\ pc[p] = "ap_audit_failed"
    /\ audit' = audit \cup {<<loc[p].run, "export_failed">>}
    /\ audit_meta' = audit_meta \cup {<<loc[p].run, "export_failed", ExceptionText>>}
    /\ pc' = [pc EXCEPT ![p] = "ap_set_failed"]
    /\ UNCHANGED <<runs, exports, issues, loc, resp, nreq, assetVars, oauthVars, pureVars>>

\* run.status = FAILED; commit; 500 (runs.py 533-539)
approve_set_failed(p) ==
    /\ pc[p] = "ap_set_failed"
    /\ runs' = SetStatus(loc[p].run, FAILED)
    /\ resp' = [resp EXCEPT ![p] = Response("approve", loc[p].run, 500, 0, NONE)]
    /\ pc' = [pc EXCEPT ![p] = "done"]
    /\ loc' = [loc EXCEPT ![p] = NoLoc]
    /\ UNCHANGED <<exports, audit, audit_meta, issues, nreq, assetVars, oauthVars, pureVars>>

\* -------------------------------------------------------------- cancel_run
CancelRejects(st) == st \in {EXPORTED, CANCELLED}

\* SELECT of the Run by its id alone and the status check (runs.py 554-562);
\* x_tenant as in approve_begin
cancel_begin(p, r, x_tenant) ==
    /\ pc[p] = "idle"
    /\ IF r > Len(runs)
       THEN /\ resp' = [resp EXCEPT ![p] = Response("cancel", r, 404, 0, NONE)]
            /\ pc' = [pc EXCEPT ![p] = "done"]
            /\ UNCHANGED loc
       ELSE IF CancelRejects(runs[r].status)
       THEN /\ resp' = [resp EXCEPT ![p] = Response("cancel", r, 400, 0, runs[r].status)]
            /\ pc' = [pc EXCEPT ![p] = "done"]
            /\ UNCHANGED loc
       ELSE /\ pc' = [pc EXCEPT ![p] = "ca_commit"]
            /\ loc' = [loc EXCEPT ![p] = [NoLoc EXCEPT !.op = "cancel", !.run = r,
                                                       !.x_tenant = x_tenant]]
            /\ UNCHANGED resp
    /\ nreq < MaxRequests
    /\ nreq' = nreq + 1
    /\ UNCHANGED <<runs, exports, audit, audit_meta, issues, assetVars, oauthVars, pureVars>>

\* run.status = CANCELLED; commit (runs.py 564-565)
cancel_commit(p) ==
    /\ pc[p] = "ca_commit"
    /\ runs' = SetStatus(loc[p].run, CANCELLED)
    /\ pc' = [pc EXCEPT ![p] = "ca_audit"]
    /\ UNCHANGED <<exports, audit, audit_meta, issues, loc, resp, nreq, assetVars, oauthVars, pureVars>>

\* audit event run_cancelled and the response (runs.py 567-577)
cancel_audit(p) ==
    /\ pc[p] = "ca_audit"
    /\ audit' = audit \cup {<<loc[p].run, "run_cancelled">>}
    /\ resp' = [resp EXCEPT ![p] = Response("cancel", loc[p].run, 200, 0, NONE)]
    /\ pc' = [pc EXCEPT ![p] = "done"]
    /\ loc' = [loc EXCEPT ![p] = NoLoc]
    /\ UNCHANGED <<audit_meta, runs, exports, issues, nreq, assetVars, oauthVars, pureVars>>

\* -------------------------------------------------------- get_text_preview
\* dict.get(key, default) on the JSON column redaction_report
Get(report, key, default) ==
    IF key \in DOMAIN report THEN report[key] ELSE default

\* GET /v1/runs/{run_id}/preview/text (runs.py 281-313)
get_text_preview(p, r) ==
    /\ pc[p] = "idle"
    /\ nreq < MaxRequests
    /\ nreq' = nreq + 1
    /\ resp' = [resp EXCEPT ![p] =
          IF r > Len(runs) THEN Response("preview", r, 404, 0, NONE)
          ELSE IF runs[r].status # READY_FOR_REVIEW
          THEN Response("preview", r, 400, 0, runs[r].status)
          ELSE IF runs[r].redaction_report = NULL
          THEN Response("preview", r, 500, 0, NONE)
          ELSE [Response("preview", r, 200, 0, NONE) EXCEPT
                   !.redacted_text = Get(runs[r].redaction_report, "redacted_text", <<>>),
                   !.diff_segments = Get(runs[r].redaction_report, "diff_segments", <<>>)]]
    /\ pc' = [pc EXCEPT ![p] = "done"]
    /\ UNCHANGED <<runs, exports, audit, audit_meta, issues, loc, assetVars, oauthVars, pureVars>>

\* the response has been sent; the process is free for the next request
finish(p) ==
    /\ pc[p] = "done"
    /\ pc' = [pc EXCEPT ![p] = "idle"]
    /\ resp' = [resp EXCEPT ![p] = NoResp]
    /\ loc' = [loc EXCEPT ![p] = NoLoc]
    /\ UNCHANGED <<runs, exports, audit, audit_meta, issues, nreq, assetVars, oauthVars, pureVars>>

CreateRunStep(p) ==
    \/ \E t \in TicketIds, n \in BOOLEAN : create_run_begin(p, t, n)
    \/ create_run_audit(p)
    \/ \E ev \in BOOLEAN : create_run_token(p, ev)
    \/ \E o \in {"ok", "value_error", "error"}, t \in Texts : create_run_fetch(p, o, t)
    \/ \E o \in {"ok", "error"} : create_run_process(p, o)
    \/ create_run_done(p)

ApiStep(p) ==
    \/ CreateRunStep(p)
    \/ \E r \in RunIds : approve_begin(p, r, TenantId)
    \/ approve_check_export(p)
    \/ approve_set_exporting(p)
    \/ \E s \in Summaries : approve_audit_started(p, s)
    \/ approve_export_row(p)
    \/ \E o \in JiraOutcomes : approve_jira(p, o)
    \/ approve_record_key(p)
    \/ approve_audit_succeeded(p, "ok")
    \/ \E s \in {"off", "ok", "fail"} : approve_slack(p, s)
    \/ approve_set_exported(p)
    \/ approve_fail_export(p)
    \/ approve_audit_failed(p)
    \/ approve_set_failed(p)
    \/ \E r \in RunIds : cancel_begin(p, r, TenantId)
    \/ cancel_commit(p)
    \/ cancel_audit(p)
    \/ finish(p)

\* ------------------------------------------------------------ RunAsset rows
A_PENDING == "pending"
A_PROCESSING == "processing"
A_COMPLETED == "completed"
A_FAILED == "failed"
A_BLOCKED == "blocked"

\* what an attachment can show: the words an OCR pass reads off an image
\* or a scanned page, or the words of a PDF text layer
Contents == {<<"hello">>, <<"a@b.co">>, <<"John", "Doe">>}

\* a RunAsset row is inserted for an attachment of an existing Run, with the
\* column default status pending
add_asset(r, asset_type) ==
    /\ r <= Len(runs)
    /\ Len(assets) < MaxAssets
    /\ assets' = Append(assets, [run_id |-> r, asset_type |-> asset_type,
                                 status |-> A_PENDING, storage_ref |-> NULL,
                                 meta_json |-> NULL])
    /\ blobs' = Append(blobs, NULL)
    /\ UNCHANGED <<apiVars, oauthVars, wpc, wloc, ntask, pureVars>>

SetAsset(a, st, ref, meta) ==
    [assets EXCEPT ![a].status = st, ![a].storage_ref = ref, ![a].meta_json = meta]

\* `pii_text.lower() in ocr_box['text'].lower()`: an OCR box holds one word,
\* so a span text of several space-joined words is in no box
InBox(pii_text, box_word) == Len(pii_text) = 1 /\ pii_text[1] = box_word

\* the boxes the image pipeline masks (ocr_image.py 222-239)
BoxesToMask(ocr_results) ==
    {j \in 1..Len(ocr_results) :
        \E pii \in Analyze(ocr_results) :
            InBox(SubSeq(ocr_results, pii.start, pii.end), ocr_results[j])}

\* the masked raster, as the words a later OCR pass would read off it
ApplyMask(ocr_results, boxes) ==
    [j \in 1..Len(ocr_results) |-> IF j \in boxes THEN "#" ELSE ocr_results[j]]

\* -------------------------------------------------------- process_image task
\* the task is delivered: the row is read and set to processing
\* (ocr_image.py 166-176)
process_image_begin(w, a) ==
    /\ wpc[w] = "idle"
    /\ ntask < MaxTasks
    /\ a <= Len(assets)
    /\ assets[a].asset_type = "redacted_image"
    /\ assets' = [assets EXCEPT ![a].status = A_PROCESSING]
    /\ wpc' = [wpc EXCEPT ![w] = "img_run"]
    /\ wloc' = [wloc EXCEPT ![w] = [NoTask EXCEPT !.asset = a]]
    /\ ntask' = ntask + 1
    /\ UNCHANGED <<apiVars, oauthVars, blobs, pureVars>>

\* the exception branch of the image task (ocr_image.py 275-280), and the
\* return after both OCR engines failed (206-211)
ImageFail(w, error) ==
    /\ assets' = [assets EXCEPT ![wloc[w].asset].status = A_FAILED,
                                ![wloc[w].asset].meta_json = [error |-> error]]
    /\ wpc' = [wpc EXCEPT ![w] = "idle"]
    /\ wloc' = [wloc EXCEPT ![w] = NoTask]
    /\ UNCHANGED blobs

\* detection, masking and upload on the words an OCR engine returned
\* (ocr_image.py 213-258)
ImageMaskAndUpload(w, ocr_method, words) ==
    LET a == wloc[w].asset
        boxes_to_mask == BoxesToMask(words)
    IN /\ blobs' = [blobs EXCEPT ![a] = ApplyMask(words, boxes_to_mask)]
       /\ wloc' = [wloc EXCEPT ![w].storage_ref = <<assets[a].run_id, a>>,
                               ![w].meta =
                      [ocr_method |-> ocr_method,
                       pii_count |-> Cardinality(Analyze(words)),
                       masked_regions |-> Cardinality(boxes_to_mask)]]
       /\ wpc' = [wpc EXCEPT ![w] = "img_commit"]
       /\ UNCHANGED assets

\* ocr_method as it is initialised before the local engine runs
\* (ocr_image.py 195); first the variant that names the cloud engine
OcrMethodCloud == "cloud_vision"

OcrMethodLocal == "tesseract"

\* download and the local OCR engine (ocr_image.py 178-199): an exception
\* of the download reaches the except branch (275-280), an exception of
\* ocr_with_tesseract is caught and the cloud engine is tried (200-203),
\* and otherwise the task goes on with the words the local engine read
process_image_run(w, outcome, words) ==
    /\ wpc[w] = "img_run"
    /\ IF outcome = "error"
       THEN ImageFail(w, "exception")
       ELSE IF outcome = "tesseract_failed"
       THEN /\ wpc' = [wpc EXCEPT ![w] = "img_cloud"]
            /\ UNCHANGED <<assets, blobs, wloc>>
       ELSE ImageMaskAndUpload(w, OcrMethodLocal, words)
    /\ UNCHANGED <<apiVars, oauthVars, ntask, pureVars>>

\* the cloud OCR engine, called in the except branch of the local one
\* (ocr_image.py 202-211): when it raises too, the asset is failed for OCR
\* and the task returns
process_image_cloud(w, outcome, words) ==
    /\ wpc[w] = "img_cloud"
    /\ IF outcome = "cloud_failed"
       THEN ImageFail(w, "OCR failed")
       ELSE IF outcome = "error"
       THEN ImageFail(w, "exception")
       ELSE ImageMaskAndUpload(w, "cloud_vision", words)
    /\ UNCHANGED <<apiVars, oauthVars, ntask, pureVars>>

\* the final commit of the image task (ocr_image.py 260-271)
ImageFinalStatus == A_COMPLETED

process_image_commit(w) ==
    /\ wpc[w] = "img_commit"
    /\ assets' = SetAsset(wloc[w].asset, ImageFinalStatus, wloc[w].storage_ref,
                          wloc[w].meta)
    /\ wpc' = [wpc EXCEPT ![w] = "idle"]
    /\ wloc' = [wloc EXCEPT ![w] = NoTask]
    /\ UNCHANGED <<apiVars, oauthVars, blobs, ntask, pureVars>>

\* ---------------------------------------------------------- process_pdf task
\* redact_text_layer_pdf: an occurrence is annotated only for a result that
\* has a `text` attribute (redact_pdf.py 46-57); without it the text layer
\* is saved as it was
RedactTextLayer(text_content, pii_results, has_text) ==
    IF has_text THEN Redact(text_content, pii_results) ELSE text_content

\* verify_pdf_redaction: no original PII pattern occurs in the text
\* extracted from the redacted document (redact_pdf.py 159-187)
RECURSIVE OccursAt(_, _, _)
OccursAt(pattern, full_text, i) ==
    /\ i + Len(pattern) - 1 <= Len(full_text)
    /\ \/ SubSeq(full_text, i, i + Len(pattern) - 1) = pattern
       \/ OccursAt(pattern, full_text, i + 1)

VerifyPdfRedaction(full_text, original_pii_patterns) ==
    \A pattern \in original_pii_patterns : ~OccursAt(pattern, full_text, 1)

\* the task is delivered: the row is read and set to processing
\* (redact_pdf.py 201-211)
process_pdf_begin(w, a) ==
    /\ wpc[w] = "idle"
    /\ ntask < MaxTasks
    /\ a <= Len(assets)
    /\ assets[a].asset_type = "redacted_pdf"
    /\ assets' = [assets EXCEPT ![a].status = A_PROCESSING]
    /\ wpc' = [wpc EXCEPT ![w] = "pdf_run"]
    /\ wloc' = [wloc EXCEPT ![w] = [NoTask EXCEPT !.asset = a]]
    /\ ntask' = ntask + 1
    /\ UNCHANGED <<apiVars, oauthVars, blobs, pureVars>>

\* the limits of the task signature (redact_pdf.py 191)
max_pages == 10
max_size_mb == 10

\* sizes (in MB) and page counts of the documents a task may download
SizesMb == {10, 11}
PageCounts == {10, 11}

\* the two limit checks (redact_pdf.py 219-230): the message of the
\* exception raised, if any; first the variant without the page check
LimitErrorSizeOnly(size_mb, page_count) ==
    IF size_mb > max_size_mb THEN "PDF too large" ELSE NONE

LimitError(size_mb, page_count) ==
    IF size_mb > max_size_mb THEN "PDF too large"
    ELSE IF page_count > max_pages THEN "PDF has too many pages"
    ELSE NONE

\* download, limits, classification, detection, redaction, verification and
\* upload (redact_pdf.py 213-275), with the blocked return (260-269) and the
\* except branch (292-297), which the two limit checks reach by raising
\* (219-230).  A scanned document has no text layer; its pages are rasters
\* showing `words`.
process_pdf_run(w, outcome, size_mb, page_count, is_text_layer, words, has_text) ==
    /\ wpc[w] = "pdf_run"
    /\ LET a == wloc[w].asset
           text_content == IF is_text_layer THEN words ELSE <<>>
           pii_results == Analyze(text_content)
           redacted_text == IF is_text_layer
                            THEN RedactTextLayer(text_content, pii_results, has_text)
                            ELSE <<>>
           redacted_raster == IF is_text_layer THEN <<>>
                              ELSE ApplyMask(words, BoxesToMask(words))
           pii_patterns == {SubSeq(text_content, pii.start, pii.end) : pii \in pii_results}
           verification_passed == VerifyPdfRedaction(redacted_text, pii_patterns)
       IN IF outcome = "error"
          THEN /\ assets' = [assets EXCEPT ![a].status = A_FAILED,
                                           ![a].meta_json = [error |-> "exception"]]
               /\ wpc' = [wpc EXCEPT ![w] = "idle"]
               /\ wloc' = [wloc EXCEPT ![w] = NoTask]
               /\ UNCHANGED blobs
          ELSE IF LimitError(size_mb, page_count) # NONE
          THEN /\ assets' = [assets EXCEPT ![a].status = A_FAILED,
                                           ![a].meta_json =
                                  [error |-> LimitError(size_mb, page_count)]]
               /\ wpc' = [wpc EXCEPT ![w] = "idle"]
               /\ wloc' = [wloc EXCEPT ![w] = NoTask]
               /\ UNCHANGED blobs
          ELSE IF ~verification_passed
          THEN /\ assets' = [assets EXCEPT ![a].status = A_BLOCKED,
                                           ![a].meta_json =
                                  [error |-> "Redaction verification failed"]]
               /\ wpc' = [wpc EXCEPT ![w] = "idle"]
               /\ wloc' = [wloc EXCEPT ![w] = NoTask]
               /\ UNCHANGED blobs
          ELSE /\ blobs' = [blobs EXCEPT ![a] = redacted_text \o redacted_raster]
               /\ wloc' = [wloc EXCEPT ![w].storage_ref = <<assets[a].run_id, a>>,
                                       ![w].meta =
                              [page_count |-> page_count,
                               size_mb |-> size_mb,
                               is_text_layer |-> is_text_layer,
                               pii_count |-> Cardinality(pii_results),
                               verification_passed |-> verification_passed]]
               /\ wpc' = [wpc EXCEPT ![w] = "pdf_commit"]
               /\ UNCHANGED assets
    /\ UNCHANGED <<apiVars, oauthVars, ntask, pureVars>>

\* the final commit of the PDF task (redact_pdf.py 277-288)
process_pdf_commit(w) ==
    /\ wpc[w] = "pdf_commit"
    /\ assets' = SetAsset(wloc[w].asset, A_COMPLETED, wloc[w].storage_ref, wloc[w].meta)
    /\ wpc' = [wpc EXCEPT ![w] = "idle"]
    /\ wloc' = [wloc EXCEPT ![w] = NoTask]
    /\ UNCHANGED <<apiVars, oauthVars, blobs, ntask, pureVars>>

WorkerStep(w) ==
    \/ \E a \in 1..MaxAssets : process_image_begin(w, a)
    \/ \E o \in {"error", "tesseract_failed", "ok"}, ws \in Contents :
          process_image_run(w, o, ws)
    \/ \E o \in {"error", "cloud_failed", "ok"}, ws \in Contents :
          process_image_cloud(w, o, ws)
    \/ process_image_commit(w)
    \/ \E a \in 1..MaxAssets : process_pdf_begin(w, a)
    \/ \E o \in {"error", "ok"}, sz \in SizesMb, pg \in PageCounts,
          tl \in BOOLEAN, ws \in Contents, ht \in BOOLEAN :
          process_pdf_run(w, o, sz, pg, tl, ws, ht)
    \/ process_pdf_commit(w)

\* ------------------------------------------------------ OAuth token lifecycle
\* installation_status that handle_install writes (oauth.py 63 and 72);
\* first the variant that marks the tenant installed at once
InstallStatusActive == "active"

InstallStatus == "pending"

\* POST /v1/oauth/install for the subdomain of the tenant, whose row exists:
\* the status is set and the authorization URL returned (oauth.py 53-91)
handle_install ==
    /\ tenant' = [tenant EXCEPT !.installation_status = InstallStatus]
    /\ oresp' = "authorization_url"
    /\ UNCHANGED <<apiVars, assetVars, now, ntok, pureVars>>

\* the ways the code exchange can end (oauth_service.py 68-85): a token
\* response, or a RequestException that becomes a ValueError
ExchangeOutcomes == {"ok", "error"}

\* GET /v1/oauth/callback: the code is exchanged and the tokens stored, or
\* the ValueError of the exchange is answered with the error redirect
\* (oauth.py 118-159, oauth_service.py 176-200)
oauth_callback(outcome, has_refresh_token) ==
    /\ IF outcome = "ok"
       THEN /\ ntok < MaxTokens
            /\ tenant' = [oauth_access_token |-> ntok + 1,
                          oauth_refresh_token |-> IF has_refresh_token THEN ntok + 1 ELSE 0,
                          oauth_token_expires_at |-> now + ExpiresIn,
                          installation_status |-> "active"]
            /\ ntok' = ntok + 1
            /\ oresp' = "redirect_apps"
       ELSE /\ oresp' = "redirect_error"
            /\ UNCHANGED <<tenant, ntok>>
    /\ UNCHANGED <<apiVars, assetVars, now, pureVars>>

\* revoke_tokens (oauth_service.py 206-221)
revoke_tokens ==
    /\ tenant' = [oauth_access_token |-> 0, oauth_refresh_token |-> 0,
                  oauth_token_expires_at |-> NoExpiry,
                  installation_status |-> "suspended"]
    /\ UNCHANGED <<apiVars, assetVars, now, ntok, oresp, pureVars>>

\* the clock advances
Tick ==
    /\ now < MaxNow
    /\ now' = now + TickSeconds
    /\ UNCHANGED <<apiVars, assetVars, tenant, ntok, oresp, pureVars>>

\* ---------------------------------------------------------- ConfigEncryption
\* Fernet keys, the IVs a token may be made with, and the secrets stored
Keys == {1, 2, 3}
Ivs == {1, 2}
Plaintexts == {"", "tok", "secret", "xoxb"}

\* ConfigEncryption.encrypt (encryption.py 35-49): "" for an empty plaintext,
\* else the base64 text of a Fernet token, which is modelled by what it
\* binds together: the key, the IV and the plaintext
Encrypt(key, plaintext, iv) ==
    IF plaintext = "" THEN EmptyCiphertext
    ELSE [key |-> key, iv |-> iv, plaintext |-> plaintext]

\* the empty-input guard of decrypt (encryption.py 61-62)
IsEmpty(encrypted) == encrypted = EmptyCiphertext

\* ConfigEncryption.decrypt (encryption.py 51-70): "" for an empty input,
\* the plaintext of a token made under this key, and ValueError for any
\* exception of b64decode or Fernet
Decrypt(key, encrypted) ==
    IF IsEmpty(encrypted) THEN ""
    ELSE IF encrypted.key = key THEN encrypted.plaintext
    ELSE "ValueError"

\* get_encryption in a process started with another ENCRYPTION_KEY, or with
\* none, for which a key is generated (encryption.py 24-33, 77-82)
get_encryption(key) ==
    /\ key # vault.key
    /\ vault' = [vault EXCEPT !.key = key, !.decrypted = NONE]
    /\ UNCHANGED <<apiVars, assetVars, oauthVars, det>>

\* encrypt_value, as set_jira_config calls it on the API token and stores
\* the result (encryption.py 85-87, config_service.py 84-98)
encrypt_value(value, iv) ==
    /\ vault' = [vault EXCEPT !.ekey = vault.key,
                              !.encrypted = Encrypt(vault.key, value, iv),
                              !.decrypted = NONE]
    /\ UNCHANGED <<apiVars, assetVars, oauthVars, det>>

\* decrypt_value on the stored text (encryption.py 90-92,
\* config_service.py 110-114)
decrypt_value ==
    /\ vault.ekey # 0
    /\ vault' = [vault EXCEPT !.decrypted = Decrypt(vault.key, vault.encrypted)]
    /\ UNCHANGED <<apiVars, assetVars, oauthVars, det>>

\* ------------------------------------------------- detection and redaction
\* the texts handed to the detector
DetTexts == Texts \cup Contents \cup {<<>>}

\* detector.analyze(text) followed by redactor.redact(text, results) on a
\* detector and a redactor that stay in use (test_m1_redaction.py 95-102)
analyze_and_redact(text) ==
    /\ Len(det) < MaxCalls
    /\ LET results == DetectorAnalyze(text, FALSE)
           redacted == RedactorRedact(text, results, FALSE)
       IN det' = Append(det, <<text, redacted>>)
    /\ UNCHANGED <<apiVars, assetVars, oauthVars, vault>>

Next ==
    \E p \in Procs : ApiStep(p)

Spec == Init /\ [][Next]_vars

\* requests served one at a time
NextSeq == ApiStep(1)

SpecSeq == Init /\ [][NextSeq]_vars

\* ticket text without PII
PlainTexts == {<<"hello">>}

\* requests served one at a time, with tickets with and without PII, with
\* the internal failures of the detection and redaction engines, and with
\* the text preview
NextRedact ==
    \/ ApiStep(1)
    \/ \E t \in PlainTexts : create_run_fetch(1, "ok", t)
    \/ \E o \in {"analyzer_error", "anonymizer_error"} : create_run_process(1, o)
    \/ \E r \in RunIds : get_text_preview(1, r)

SpecRedact == Init /\ [][NextRedact]_vars

\* requests served one at a time, with attachments and the tasks of one
\* worker
NextAssets ==
    \/ ApiStep(1)
    \/ \E r \in RunIds, t \in {"redacted_image", "redacted_pdf"} : add_asset(r, t)
    \/ WorkerStep(1)

SpecAssets == Init /\ [][NextAssets]_vars

\* create_run requests served one at a time, with attachments and the tasks
\* of all workers, to which the queue may deliver the same asset
NextWorkers ==
    \/ CreateRunStep(1)
    \/ finish(1)
    \/ \E r \in RunIds, t \in {"redacted_image", "redacted_pdf"} : add_asset(r, t)
    \/ \E w \in Workers : WorkerStep(w)

SpecWorkers == Init /\ [][NextWorkers]_vars

\* create_run requests served one at a time, with the tenant's OAuth
\* installation, revocation and token refresh
NextOAuth ==
    \/ CreateRunStep(1)
    \/ \E o \in RefreshOutcomes, ro \in BOOLEAN, ev \in BOOLEAN :
          create_run_refresh(1, o, ro, ev)
    \/ finish(1)
    \/ handle_install
    \/ \E o \in ExchangeOutcomes, hr \in BOOLEAN : oauth_callback(o, hr)
    \/ revoke_tokens
    \/ Tick

SpecOAuth == Init /\ [][NextOAuth]_vars

\* two create_run requests of the tenant at a time, with the tenant's OAuth
\* installation and token refresh
NextOAuthPar ==
    \/ \E p \in Procs :
          \/ CreateRunStep(p)
          \/ \E o \in RefreshOutcomes, ro \in BOOLEAN, ev \in BOOLEAN :
                create_run_refresh(p, o, ro, ev)
          \/ finish(p)
    \/ \E hr \in BOOLEAN : oauth_callback("ok", hr)
    \/ Tick

SpecOAuthPar == Init /\ [][NextOAuthPar]_vars

\* summaries with PII in them
PiiSummaries == {<<"a@b.co">>}

\* requests served one at a time: approve requests with any summary, approve
\* and cancel requests made on behalf of any tenant, and a commit that
\* fails after the downstream issue was created
NextRequests ==
    \/ ApiStep(1)
    \/ \E s \in PiiSummaries : approve_audit_started(1, s)
    \/ \E r \in RunIds, t \in Tenants : approve_begin(1, r, t)
    \/ \E r \in RunIds, t \in Tenants : cancel_begin(1, r, t)
    \/ approve_audit_succeeded(1, "commit_error")

SpecRequests == Init /\ [][NextRequests]_vars

\* the vault and the detector on their own
NextUtils ==
    \/ \E k \in Keys : get_encryption(k)
    \/ \E v \in Plaintexts, iv \in Ivs : encrypt_value(v, iv)
    \/ decrypt_value
    \/ \E t \in DetTexts : analyze_and_redact(t)

SpecUtils == Init /\ [][NextUtils]_vars

\* ===================================================================
\* Properties
\* ===================================================================
KeyedExportsOf(r) == {e \in ExportsOf(r) : exports[e].jira_issue_key # 0}
IssuesOf(r) == {i \in 1..Len(issues) : issues[i].run = r}
AssetsOf(r) == {a \in 1..Len(assets) : assets[a].run_id = r}
NonTerminal == {PENDING, PROCESSING, READY_FOR_REVIEW, EXPORTING}

AllowedEdge(s, t) ==
    \/ <<s, t>> \in {<<PENDING, PROCESSING>>, <<PROCESSING, READY_FOR_REVIEW>>,
                     <<READY_FOR_REVIEW, EXPORTING>>, <<EXPORTING, EXPORTED>>,
                     <<PROCESSING, FAILED>>, <<EXPORTING, FAILED>>}
    \/ s \in NonTerminal /\ t = CANCELLED

\* C1: every change of a Run's status follows an edge of the lifecycle DAG:
\* forward along pending -> processing -> ready_for_review -> exporting ->
\* exported, to failed from processing or exporting, to cancelled from a
\* non-terminal status; nothing leaves exported, failed or cancelled.
C1_StatusFollowsDag ==
    [][\A r \in 1..Len(runs) :
          runs'[r].status # runs[r].status
              => AllowedEdge(runs[r].status, runs'[r].status)]_vars

\* C2: an approve answered while the Run already has an Export row with an
\* issue key returns 200 with that key, and a Run never has two issues.
C2_SecondApproveEchoesKey ==
    /\ \A p \in Procs :
          (/\ pc[p] = "done"
           /\ resp[p].op = "approve"
           /\ resp[p].run <= Len(runs)
           /\ KeyedExportsOf(resp[p].run) # {})
          => /\ resp[p].code = 200
             /\ \E e \in KeyedExportsOf(resp[p].run) :
                   exports[e].jira_issue_key = resp[p].key
    /\ \A r \in 1..Len(runs) : Cardinality(IssuesOf(r)) <= 1

\* C3: no two downstream issues were created for Runs with the same
\* run_hash (the issues of approvals on one Run included).
C3_OneIssuePerRunHash ==
    \A i, j \in 1..Len(issues) :
        i # j => runs[issues[i].run].run_hash # runs[issues[j].run].run_hash

\* C4: a Run whose status is exported has exactly one Export row, and that
\* row has an issue key.
C4_ExportedHasOneKeyedExport ==
    \A r \in 1..Len(runs) :
        runs[r].status = EXPORTED
            => /\ Cardinality(ExportsOf(r)) = 1
               /\ KeyedExportsOf(r) = ExportsOf(r)

\* C5: for every Run at most one approve request is past the
\* ready_for_review check at a time, at most one issue was created for it
\* and it has at most one Export row.
C5_ApprovesLinearized ==
    \A r \in 1..Len(runs) :
        /\ Cardinality({p \in Procs : loc[p].op = "approve" /\ loc[p].run = r}) <= 1
        /\ Cardinality(IssuesOf(r)) <= 1
        /\ Cardinality(ExportsOf(r)) <= 1

\* C6: in every committed state, an Export row with an issue key belongs to
\* a Run whose status is exported.
C6_KeyAndExportedTogether ==
    \A e \in 1..Len(exports) :
        exports[e].jira_issue_key # 0 => runs[exports[e].run_id].status = EXPORTED

\* C7: an approve request that finds its Run in a status other than
\* ready_for_review ends at once with a 400 and changes neither the runs,
\* the exports nor the downstream issues; and every downstream issue is
\* created by an approve request that passed that check, after its
\* export_started event.
C7_ApproveOnlyWhenReady ==
    [][/\ \A p \in Procs, r \in 1..Len(runs) :
             (/\ pc[p] = "idle"
              /\ \/ loc'[p].op = "approve" /\ loc'[p].run = r
                 \/ resp'[p].op = "approve" /\ resp'[p].run = r
              /\ runs[r].status # READY_FOR_REVIEW)
             => /\ pc'[p] = "done"
                /\ resp'[p].code = 400
                /\ loc'[p] = NoLoc
                /\ runs' = runs /\ exports' = exports /\ issues' = issues
       /\ issues' # issues
             => /\ Len(issues') = Len(issues) + 1
                /\ \E p \in Procs :
                      /\ loc[p].op = "approve"
                      /\ loc[p].run = issues'[Len(issues')].run
                      /\ <<loc[p].run, "export_started">> \in audit
                      /\ runs[loc[p].run].redaction_report # NULL]_vars

\* C7 witness: an approve was rejected with 400 on an exported Run
C7_Witness ==
    \E p \in Procs :
        /\ pc[p] = "done"
        /\ resp[p].op = "approve"
        /\ resp[p].code = 400
        /\ runs[resp[p].run].status = EXPORTED
        /\ Cardinality(IssuesOf(resp[p].run)) = 1

Verified(meta) == "verification_passed" \in DOMAIN meta /\ meta.verification_passed

\* C8: every RunAsset whose status is completed carries the record of a
\* leak verification that passed.
C8_CompletedWasVerified ==
    \A a \in 1..Len(assets) :
        assets[a].status = A_COMPLETED => Verified(assets[a].meta_json)

\* C9: a Run whose status is exported has no RunAsset in status blocked.
C9_NoExportWithBlockedAsset ==
    \A r \in 1..Len(runs) :
        runs[r].status = EXPORTED
            => \A a \in AssetsOf(r) : assets[a].status # A_BLOCKED

\* C10: a Run whose status is ready_for_review has a redaction_report and
\* a run_hash, and each of its RunAssets is completed or blocked.
C10_ReadyForReviewComplete ==
    \A r \in 1..Len(runs) :
        runs[r].status = READY_FOR_REVIEW
            => /\ runs[r].redaction_report # NULL
               /\ runs[r].run_hash # NULL
               /\ \A a \in AssetsOf(r) : assets[a].status \in {A_COMPLETED, A_BLOCKED}

InFlight == {"ap_jira", "ap_record_key", "ap_audit_succeeded", "ap_slack",
             "ap_set_exported", "ap_fail_export", "ap_audit_failed", "ap_set_failed"}

\* C11: once cancel has committed while an approve of the same Run is at or
\* past its downstream call, no later step changes the Run's status: it
\* stays cancelled and becomes neither exported nor failed.
C11_CancelledSurvivesApprove ==
    [][\A p \in Procs :
          (/\ loc[p].op = "approve"
           /\ pc[p] \in InFlight
           /\ runs[loc[p].run].status = CANCELLED)
          => runs'[loc[p].run].status = CANCELLED]_vars

\* C12: once a Run is cancelled while its create_run is still at work, no
\* later step of that create_run changes the status: it is not overwritten
\* with ready_for_review (so no approve can pass and no issue is created).
C12_CancelledSurvivesCreateRun ==
    [][\A p \in Procs :
          (/\ loc[p].op = "create_run"
           /\ runs[loc[p].run].status = CANCELLED)
          => runs'[loc[p].run].status = CANCELLED]_vars

\* C13: a cancel request is accepted exactly when it finds the Run in a
\* non-terminal status, and then sets it to cancelled; on a Run that is
\* exported, failed or cancelled it is rejected and changes nothing.
C13_CancelExactlyNonTerminal ==
    [][/\ \A p \in Procs, r \in 1..Len(runs) :
             (/\ pc[p] = "idle"
              /\ \/ loc'[p].op = "cancel" /\ loc'[p].run = r
                 \/ resp'[p].op = "cancel" /\ resp'[p].run = r)
             => IF runs[r].status \in NonTerminal
                THEN loc'[p].op = "cancel" /\ pc'[p] = "ca_commit"
                ELSE /\ pc'[p] = "done"
                     /\ resp'[p].code >= 400
                     /\ runs' = runs
       /\ \A p \in Procs :
             (pc[p] = "ca_commit" /\ pc'[p] # "ca_commit")
             => runs'[loc[p].run].status = CANCELLED]_vars

\* process p makes one create_issue call in this step
Attempts(p) == pc[p] = "ap_jira" /\ (pc'[p] # pc[p] \/ loc'[p] # loc[p])

\* C14: the call about to be made by one approval is at most its 5th, and
\* after a call that failed with 401, 403 or 404 the approval makes no
\* further call: the error reaches the handler at once.
C14_AtMostFiveAttempts ==
    [][\A p \in Procs :
          Attempts(p)
          => /\ loc[p].attempt + 1 <= 5
             /\ loc'[p].last_exception \in {"401", "403", "404"}
                   => /\ pc'[p] = "ap_fail_export"
                      /\ loc'[p].attempt = loc[p].attempt
                      /\ issues' = issues]_vars

\* C14 witness: after two retried calls a third call failed with 404 and
\* the approval went to its failure branch
C14_Witness ==
    \E p \in Procs :
        /\ pc[p] = "ap_fail_export"
        /\ loc[p].last_exception = "404"
        /\ loc[p].attempt = 2

\* C15: a failed create_issue call is followed by another call exactly when
\* its failure is transient (network, 5xx, 429) and fewer than 5 calls
\* have been made.
C15_RetryIffTransient ==
    [][\A p \in Procs :
          (Attempts(p) /\ pc'[p] # "ap_record_key")
          => (pc'[p] = "ap_jira"
                <=> /\ loc'[p].last_exception \in {"network", "500", "429"}
                    /\ loc[p].attempt + 1 < 5)]_vars

\* C16: when the downstream call of an approval fails for good, the
\* approval marks its Export row failed with an error_code, the row has no
\* issue key, the export_failed event is recorded, the Run goes from
\* exporting to failed, and the approval is answered with an error.
C16_TerminalFailureRecorded ==
    [][\A p \in Procs :
          /\ (pc[p] = "ap_fail_export" /\ pc'[p] # pc[p])
                => /\ exports'[loc[p].export].status = "failed"
                   /\ exports'[loc[p].export].error_code # NONE
                   /\ exports'[loc[p].export].jira_issue_key = 0
          /\ (pc[p] = "ap_set_failed" /\ pc'[p] # pc[p])
                => /\ runs[loc[p].run].status = EXPORTING
                   /\ runs'[loc[p].run].status = FAILED
                   /\ <<loc[p].run, "export_failed">> \in audit
                   /\ resp'[p].code = 500]_vars

\* C17: after a notifier post that raised, the failure is in the audit
\* log, the export is not failed, and the approval goes on to set the Run
\* exported and answers 200 with the issue key its Export row holds.
C17_NotifierFailureDoesNotFail ==
    [][\A p \in Procs :
          /\ (pc[p] = "ap_slack" /\ pc'[p] # pc[p])
                => /\ pc'[p] = "ap_set_exported"
                   /\ runs' = runs /\ exports' = exports /\ issues' = issues
                   /\ loc'[p].last_exception = "slack_error"
                         => <<loc[p].run, "slack_post_failed">> \in audit'
          /\ (pc[p] = "ap_set_exported" /\ pc'[p] # pc[p])
                => /\ runs'[loc[p].run].status = EXPORTED
                   /\ exports[loc[p].export].jira_issue_key # 0
                   /\ resp'[p].code = 200
                   /\ resp'[p].key = loc[p].key]_vars

\* C17 witness: an approval whose notifier post failed was answered 200
\* and its Run is exported
C17_Witness ==
    \E p \in Procs :
        /\ pc[p] = "done"
        /\ resp[p].op = "approve"
        /\ resp[p].code = 200
        /\ resp[p].key # 0
        /\ <<resp[p].run, "slack_post_failed">> \in audit
        /\ <<resp[p].run, "slack_post_succeeded">> \notin audit
        /\ runs[resp[p].run].status = EXPORTED

\* C18: while the tenant is suspended (a revoke with no callback since) it
\* has no access token, no refresh token and no expiry, so that every
\* get_valid_access_token fails.
C18_RevokedHasNoTokens ==
    tenant.installation_status = "suspended"
        => /\ tenant.oauth_access_token = 0
           /\ tenant.oauth_refresh_token = 0
           /\ tenant.oauth_token_expires_at = NoExpiry

\* C19: a create_run that finds the tenant without an access token ends
\* with 401 and a failed Run, without fetching the ticket.
C19_NoTokenIsRejected ==
    [][\A p \in Procs :
          (/\ pc[p] = "cr_token"
           /\ pc'[p] # pc[p]
           /\ tenant.oauth_access_token = 0)
          => /\ pc'[p] = "done"
             /\ resp'[p].code = 401
             /\ runs'[loc[p].run].status = FAILED]_vars

\* C20: with an access token, a refresh token and an expiry stored,
\* get_valid_access_token goes to the refresh endpoint exactly when
\* now + 300 >= expiry, and otherwise hands out the stored access token.
C20_RefreshExactlyInWindow ==
    [][\A p \in Procs :
          (/\ pc[p] = "cr_token"
           /\ pc'[p] # pc[p]
           /\ tenant.oauth_access_token # 0
           /\ tenant.oauth_refresh_token # 0
           /\ tenant.oauth_token_expires_at # NoExpiry)
          => /\ pc'[p] = "cr_refresh" <=> now + 300 >= tenant.oauth_token_expires_at
             /\ pc'[p] # "cr_refresh"
                   => /\ pc'[p] = "cr_fetch"
                      /\ loc'[p].access_token = tenant.oauth_access_token]_vars

Cleared(t) ==
    /\ t.oauth_access_token = 0
    /\ t.oauth_refresh_token = 0
    /\ t.oauth_token_expires_at = NoExpiry

\* C21: when the refresh endpoint rejects the refresh with invalid_grant,
\* the tenant's access token, refresh token and expiry are cleared and its
\* installation status becomes suspended.
C21_InvalidGrantSuspends ==
    [][\A p \in Procs :
          (/\ pc[p] = "cr_refresh"
           /\ pc'[p] # pc[p]
           /\ loc'[p].last_exception = "invalid_grant")
          => /\ Cleared(tenant')
             /\ tenant'.installation_status = "suspended"]_vars

\* C22: when the refresh fails with a network error or a 5xx answer while
\* the stored access token has not reached its expiry, the request goes on
\* to the upstream with that stored access token.
C22_TransientFailureKeepsOldToken ==
    [][\A p \in Procs :
          (/\ pc[p] = "cr_refresh"
           /\ pc'[p] # pc[p]
           /\ loc'[p].last_exception \in {"network", "500"}
           /\ tenant.oauth_access_token # 0
           /\ now < tenant.oauth_token_expires_at)
          => /\ pc'[p] = "cr_fetch"
             /\ loc'[p].access_token = tenant.oauth_access_token]_vars

\* C23: at most one request of the tenant has a refresh in progress, that
\* is, has sent the stored refresh token to the upstream and not yet
\* handled the answer.
C23_OneRefreshAtATime ==
    Cardinality({p \in Procs : pc[p] = "cr_refresh"}) <= 1

C25_InternalNotesRejected ==
    /\ [](~AllowInternalNotes
             => \A r \in 1..Len(runs) : ~runs[r].include_internal_notes)
    /\ [][\A p \in Procs :
             (/\ pc[p] = "idle"
              /\ resp'[p].op = "create_run"
              /\ resp'[p].code = 403)
             => /\ pc'[p] = "done"
                /\ runs' = runs
                /\ audit' = audit]_vars

\* C25 witness: a create_run was answered 403 after an earlier one had
\* created a Run; that Run and its audit event are all there is
C25_Witness ==
    \E p \in Procs :
        /\ pc[p] = "done"
        /\ resp[p].op = "create_run"
        /\ resp[p].code = 403
        /\ Len(runs) = 1
        /\ audit = {<<1, "run_created">>}

\* C26: a create_run whose ticket text holds PII never sets its Run
\* ready_for_review with an empty detection result or with the original
\* text stored as redacted_text: when the detector or the redactor failed,
\* the Run goes from processing to failed.
C26_EngineFailureFailsRun ==
    [][\A p \in Procs :
          (/\ pc[p] = "cr_process"
           /\ pc'[p] # pc[p]
           /\ Analyze(loc[p].text) # {})
          => \/ /\ runs[loc[p].run].status = PROCESSING
                /\ runs'[loc[p].run].status = FAILED
             \/ /\ runs'[loc[p].run].status = READY_FOR_REVIEW
                /\ runs'[loc[p].run].redaction_report.total_detections > 0
                /\ runs'[loc[p].run].redaction_report.redacted_text # loc[p].text]_vars

\* C27: a task delivered for a RunAsset whose status is completed or
\* blocked changes nothing of the asset rows: status, storage_ref and meta
\* stay as they are.
C27_DeliveryToFinishedIsNoOp ==
    [][\A w \in Workers, a \in 1..Len(assets) :
          (/\ wpc[w] = "idle"
           /\ ntask' = ntask + 1
           /\ wloc'[w].asset = a
           /\ assets[a].status \in {A_COMPLETED, A_BLOCKED})
          => assets' = assets]_vars

\* C28: at most one worker at a time is at work on an asset, however often
\* its task is delivered.
C28_OneWorkerPerAsset ==
    \A a \in 1..Len(assets) :
        Cardinality({w \in Workers : wpc[w] # "idle" /\ wloc[w].asset = a}) <= 1

PdfLimitErrors == {"PDF too large", "PDF has too many pages"}

\* C29: no document of more than 10 pages or more than 10 MB is uploaded or
\* completed, and the step that rejects a document for its size or page
\* count sets the asset failed with that reason and changes neither the
\* blob store nor any Run.
C29_OversizePdfRejected ==
    /\ [](\A a \in 1..Len(assets) :
             (assets[a].status = A_COMPLETED /\ "page_count" \in DOMAIN assets[a].meta_json)
             => /\ assets[a].meta_json.page_count <= 10
                /\ assets[a].meta_json.size_mb <= 10)
    /\ [][\A w \in Workers :
             (wpc[w] = "pdf_run" /\ wpc'[w] # wpc[w])
             => /\ blobs' # blobs
                   => /\ wloc'[w].meta.page_count <= 10
                      /\ wloc'[w].meta.size_mb <= 10
                /\ (/\ wpc'[w] = "idle"
                    /\ "error" \in DOMAIN assets'[wloc[w].asset].meta_json
                    /\ assets'[wloc[w].asset].meta_json.error \in PdfLimitErrors)
                   => /\ assets'[wloc[w].asset].status = A_FAILED
                      /\ blobs' = blobs
                      /\ runs' = runs]_vars

\* C29 witness: a document was rejected for its page count; its asset is
\* failed with the reason, nothing was uploaded for it and its Run is
\* ready_for_review
C29_Witness ==
    \E a \in 1..Len(assets) :
        /\ assets[a].status = A_FAILED
        /\ "error" \in DOMAIN assets[a].meta_json
        /\ assets[a].meta_json.error = "PDF has too many pages"
        /\ blobs[a] = NULL
        /\ runs[assets[a].run_id].status = READY_FOR_REVIEW

\* the texts of the segments of a diff view, joined in order
RECURSIVE ConcatSegments(_)
ConcatSegments(segments) ==
    IF segments = <<>> THEN <<>>
    ELSE Head(segments).text \o ConcatSegments(Tail(segments))

\* C30: in every preview that is answered 200, the texts of the
\* diff_segments, joined in order, are the redacted_text of the answer.
C30_DiffSegmentsMakeRedactedText ==
    \A p \in Procs :
        (/\ pc[p] = "done"
         /\ resp[p].op = "preview"
         /\ resp[p].code = 200)
        => ConcatSegments(resp[p].diff_segments) = resp[p].redacted_text

\* C31: no audit event written by create_run, approve or cancel carries
\* free text in its meta in which the detector finds PII.
C31_AuditMetaHasNoPii ==
    \A m \in audit_meta : Analyze(m[3]) = {}

\* C32: an approve or a cancel request is accepted for a Run only when it
\* is made on behalf of the tenant the Run belongs to.
C32_RunsAreTenantScoped ==
    [][\A p \in Procs :
          (pc[p] = "idle" /\ pc'[p] \in {"ap_check_export", "ca_commit"})
              => loc'[p].x_tenant = runs[loc'[p].run].tenant_id]_vars

\* decrypt(encrypt(p)) = p under the key that encrypted
VaultRoundTrip ==
    (vault.decrypted # NONE /\ vault.ekey = vault.key)
        => vault.decrypted = vault.encrypted.plaintext

\* C33: decrypt gives back the plaintext under the key that encrypted it,
\* and fails with an error under any other key.
C33_DecryptRoundTripOrError ==
    /\ VaultRoundTrip
    /\ (vault.decrypted # NONE /\ vault.ekey # vault.key)
           => vault.decrypted = "ValueError"

C35_ExportedAfterSucceededEvent ==
    /\ [](\A r \in 1..Len(runs) :
             runs[r].status = EXPORTED
                 => /\ <<r, "export_started">> \in audit
                    /\ <<r, "export_succeeded">> \in audit)
    /\ [][\A r \in 1..Len(runs) :
             /\ (<<r, "export_succeeded">> \in audit' \ audit)
                    => <<r, "export_started">> \in audit
             /\ (runs[r].status # EXPORTED /\ runs'[r].status = EXPORTED)
                    => <<r, "export_succeeded">> \in audit]_vars

\* a Run has been exported
C35_Witness ==
    \E r \in 1..Len(runs) : runs[r].status = EXPORTED

\* C36: the cloud engine is tried only from the failure of the local one,
\* the asset is failed for OCR only by a task whose cloud engine failed,
\* and a task whose local engine succeeded records the local engine.
C36_CloudOcrOnlyAfterLocalFailed ==
    [][\A w \in Workers :
          /\ (wpc[w] # "img_cloud" /\ wpc'[w] = "img_cloud") => wpc[w] = "img_run"
          /\ (/\ wpc[w] # "idle" /\ wpc'[w] = "idle"
              /\ assets'[wloc[w].asset].meta_json = [error |-> "OCR failed"])
                 => wpc[w] = "img_cloud"
          /\ (wpc[w] = "img_run" /\ wpc'[w] = "img_commit")
                 => wloc'[w].meta.ocr_method = "tesseract"
          /\ (wpc[w] = "img_cloud" /\ wpc'[w] = "img_commit")
                 => wloc'[w].meta.ocr_method = "cloud_vision"]_vars

\* an image task whose local engine succeeded is about to commit, and an
\* asset has been failed for OCR
C36_Witness ==
    /\ \E w \in Workers : wpc[w] = "img_commit" /\ wloc[w].meta.ocr_method = "tesseract"
    /\ \E a \in 1..Len(assets) : assets[a].meta_json = [error |-> "OCR failed"]

\* C37: a completed image in whose OCR text a span was detected has at
\* least one masked region, and no PII is left in what it shows.
C37_EverySpanIsMasked ==
    \A a \in 1..Len(assets) :
        (/\ assets[a].asset_type = "redacted_image"
         /\ assets[a].status = A_COMPLETED
         /\ assets[a].meta_json.pii_count > 0)
            => /\ assets[a].meta_json.masked_regions > 0
               /\ Analyze(blobs[a]) = {}

\* C38: a task that ends leaves its asset completed, failed or blocked, and
\* storage_ref is set only on a completed asset.
C38_TaskEndsInFinalStatus ==
    /\ [](\A a \in 1..Len(assets) :
             assets[a].storage_ref # NULL => assets[a].status = A_COMPLETED)
    /\ [][\A w \in Workers :
             (wpc[w] # "idle" /\ wpc'[w] = "idle")
                 => assets'[wloc[w].asset].status \in {A_COMPLETED, A_FAILED, A_BLOCKED}]_vars

\* C39: a failed Export row has no issue key, and a Run that failed in an
\* approval has no downstream issue.
C39_FailedExportHasNoIssue ==
    /\ \A e \in 1..Len(exports) :
          exports[e].status = "failed" => exports[e].jira_issue_key = 0
    /\ \A r \in 1..Len(runs) :
          (runs[r].status = FAILED /\ <<r, "export_started">> \in audit)
              => IssuesOf(r) = {}

====
